---- MODULE Spec2Model ----
(***************************************************************************)
(* Model of src/index.js: the live-calls poller of main(), its dedup set   *)
(* processedCalls, the notification functions and the audio pipeline       *)
(* processCallWorker, run on Node's single-threaded event loop; the login  *)
(* of loginToDashboard; and the pure extractCountryFromTermination.        *)
(*                                                                         *)
(* Spec follows main() from the moment it has its session, SpecFair adds   *)
(* that the poll loop keeps taking its steps, SpecClock lets the clock     *)
(* advance between pipeline runs, SpecLogin follows loginToDashboard for   *)
(* any maxRetries, and SpecCountry applies the country extraction to every *)
(* cell text up to MaxTextLen symbols.                                     *)
(*                                                                         *)
(* One action is one callback run to its next await.  The cheerio .each    *)
(* callback of a poll tick is synchronous: ScanRow handles one row in one  *)
(* step and, while mainPc = "scan", no other callback can run.  Every      *)
(* await of the source is followed by an action that draws the outcome of  *)
(* the awaited call (resolved or rejected) with \E.                        *)
(***************************************************************************)
EXTENDS Integers, Sequences, FiniteSets, TLC

(* ------------------------------ bounds -------------------------------- *)
MaxRows == 2         \* rows returned by one scan
MaxReloads == 1      \* page.reload() calls in flight at once
MaxDispatch == 2     \* dispatches per cli_number the model follows
MaxFetches == 2      \* recording fetches of one dispatch the model follows
MaxTextLen == 7      \* symbols in the text of a termination cell
MaxRetriesBound == 3 \* largest maxRetries loginToDashboard is called with

(* ------------------------------ inputs -------------------------------- *)
\* Trimmed texts of column 2.  "failed" is a cli_number text too: in a
\* three-column row column 2 is also the last (status) column.
CLIs == {"X", "failed"}

\* Raw texts of the last column of a row with more than three columns.
StatusTexts == {"FAILED", " failed ", "ANSWERED"}

\* Values Date.now() returns at line 272 while a run lasts, in milliseconds
\* counted from the first one.
Stamps == {0, 1}

\* Argument lists of the onclick handler of a play button, Play('a','b').
ArgLists == {<<"d1">>, <<"d1", "u1">>, <<"", "u1">>}

Rows ==
    {[cols |-> 2, cli |-> "X", last |-> "ANSWERED", hasPlay |-> FALSE, args |-> <<>>]}
    \cup {[cols |-> n, cli |-> c, last |-> s, hasPlay |-> p, args |-> a] :
             n \in {3, 4}, c \in CLIs, s \in StatusTexts \cup CLIs, p \in BOOLEAN,
             a \in ArgLists \cup {<<>>}}

\* A row as the table can hold it: with three columns the last column is
\* column 2; a row without a play button has no handler arguments.
WellFormed(r) ==
    /\ r.cols = 3 => r.last = r.cli
    /\ r.cols = 4 => r.last \in StatusTexts
    /\ r.hasPlay <=> r.args # <<>>

PageRows == {r \in Rows : WellFormed(r)}

(* ------------------------- pure helper functions ---------------------- *)
\* String.prototype.trim on the texts of the model.
Trim(s) == IF s = " failed " THEN "failed" ELSE s

\* String.prototype.toUpperCase on the (trimmed) texts of the model.
ToUpperCase(s) == IF s = "failed" THEN "FAILED" ELSE s

CallStatusRaw(r) == Trim(r.last)

\* line 370: $(columns[columns.length - 1]).text().trim().toUpperCase()
CallStatus(r) == ToUpperCase(Trim(r.last))

NoMatch == <<>>

PlayMatchAny(args) ==
    IF Len(args) >= 2 THEN <<args[1], args[2]>> ELSE <<"undefined", "undefined">>

\* line 384: onclickAttr.match(/Play\(['"]([^'"]+)['"],\s*['"]([^'"]+)['"]\)/)
PlayMatch(args) ==
    IF Len(args) = 2 /\ args[1] # "" /\ args[2] # ""
    THEN <<args[1], args[2]>>
    ELSE NoMatch

NoUrl == <<>>

\* line 387: the recording URL built from the two matched tokens
AudioUrl(m) == <<"sound", m[1], m[2]>>

HasNever(set, c) == FALSE

\* line 379: processedCalls.has(callId)
Has(set, c) == c \in set

AddNothing(set, c) == set

\* line 380: processedCalls.add(callId)
Add(set, c) == set \cup {c}

(* ------------------------- country extraction ------------------------- *)
\* The text of a termination cell (column 0) is a sequence of symbols: the
\* space character and words, a word being a run of characters without a
\* space.  Two words are never adjacent (they would be one word).
Space == " "

Words == {"UNITED", "KINGDOM", "MOBILE", "fixed", "07123"}

RECURSIVE TextsOfLen(_)
TextsOfLen(n) ==
    IF n = 0 THEN {<<>>}
    ELSE {Append(s, x) : s \in TextsOfLen(n - 1), x \in {Space}}
         \cup {Append(s, w) : s \in {q \in TextsOfLen(n - 1) : q = <<>> \/ q[Len(q)] = Space},
                              w \in Words}

Texts == UNION {TextsOfLen(n) : n \in 0..MaxTextLen}

UpperWordRaw(w) == w

\* String.prototype.toUpperCase on a word
UpperWord(w) == IF w = "fixed" THEN "FIXED" ELSE w

\* /\d/.test on a word
HasDigit(w) == w = "07123"

\* String.prototype.trim on a text: leading and trailing spaces removed
RECURSIVE TrimStart(_)
TrimStart(s) == IF s # <<>> /\ Head(s) = Space THEN TrimStart(Tail(s)) ELSE s

RECURSIVE TrimEnd(_)
TrimEnd(s) ==
    IF s # <<>> /\ s[Len(s)] = Space THEN TrimEnd(SubSeq(s, 1, Len(s) - 1)) ELSE s

TrimText(s) == TrimEnd(TrimStart(s))

\* line 59: text.split(' ').  Every space character is a separator, so two
\* spaces in a row give an empty part and the empty text gives one empty part.
RECURSIVE SplitFrom(_, _)
SplitFrom(s, part) ==
    IF s = <<>> THEN <<part>>
    ELSE IF Head(s) = Space THEN <<part>> \o SplitFrom(Tail(s), <<>>)
    ELSE SplitFrom(Tail(s), Append(part, Head(s)))

Split(s) == SplitFrom(s, <<>>)

\* Array.prototype.join(' ')
RECURSIVE Join(_)
Join(parts) ==
    IF parts = <<>> THEN <<>>
    ELSE IF Len(parts) = 1 THEN parts[1]
    ELSE parts[1] \o <<Space>> \o Join(Tail(parts))

\* line 62: ['MOBILE', 'FIXED'].includes(part.toUpperCase()) || /\d/.test(part)
Stops(part) ==
    \/ Len(part) = 1 /\ UpperWord(part[1]) \in {"MOBILE", "FIXED"}
    \/ \E i \in 1..Len(part) : HasDigit(part[i])

\* lines 61-66: the parts pushed before the loop breaks
RECURSIVE CountryParts(_)
CountryParts(parts) ==
    IF parts = <<>> \/ Stops(Head(parts)) THEN <<>>
    ELSE <<Head(parts)>> \o CountryParts(Tail(parts))

\* lines 58-68
extractCountryFromTermination(text) ==
    LET countryParts == CountryParts(Split(text)) IN
    IF Len(countryParts) > 0 THEN Join(countryParts) ELSE text

(* ------------------------------- state -------------------------------- *)
VARIABLES
    escapeDefined,   \* does the free identifier escapeMarkdownV2 resolve at run time
    clock,           \* the values Date.now() returns during this run
    procState,       \* "running" | "crashed"
    mainPc,          \* position of main()'s while loop
    rowsLeft,        \* rows of the current page still to visit
    processedCalls,  \* the dedup Set of line 347
    tasks,           \* every dispatch started so far
    unhandled,       \* a rejected promise nobody handles is pending
    files,           \* temporary files on disk
    reloads,         \* setInterval reloads in flight
    log,             \* logger.error lines written about a call, as <<kind, cli>>
    tickLine,        \* the logger.error line naming no call that was written last
                     \* since a page read resolved: "none", "loop" or "refresh"
    first,           \* history: kind of the first row scanned for each cli_number
    prevAudio,       \* history: cli_numbers the previous scan showed in an audio row
    curAudio,        \* history: cli_numbers this scan has shown in an audio row
    maxRetries,      \* loginToDashboard: the maxRetries option
    headless,        \* loginToDashboard: the headless option
    loginPc,         \* loginToDashboard: the await it is suspended at, or how it ended
    attempt,         \* loginToDashboard: the local counter of line 171
    browser,         \* loginToDashboard: the local of line 170, 0 for null
    opened,          \* browsers launched and not closed, by launch number
    launched,        \* history: browsers launched so far
    cell,            \* raw text of the termination cell (column 0) being read
    country          \* callData.country computed from it, NoCountry before

loginVars == <<maxRetries, headless, loginPc, attempt, browser, opened, launched>>

countryVars == <<cell, country>>

mainVars == <<escapeDefined, clock, procState, mainPc, rowsLeft, processedCalls, tasks, unhandled,
              files, reloads, log, tickLine, first, prevAudio, curAudio>>

vars == <<mainVars, loginVars, countryVars>>

hist == <<first, prevAudio, curAudio>>

\* The n-th dispatch for cli_number c.  handle is what sendInstantNotification
\* resolved with and arg the notificationMessageId processCallWorker was
\* called with, <<>> for null; stamp is the Date.now() of line 272, -1 before.
NewTask(k, c, n, s, u) ==
    [kind |-> k, cli |-> c, n |-> n, st |-> s, url |-> u, handle |-> <<>>, arg |-> <<>>,
     stamp |-> -1, fetches |-> 0, sent |-> "none", retract |-> "none", err |-> "none"]

TasksOf(c) == {t \in tasks : t.cli = c}

WavPathNoCli(t) == <<t.stamp, "", "wav">>

\* lines 272-275: call_<Date.now()>_<cliNumber>.wav beside the script
WavPath(t) == <<t.stamp, t.cli, "wav">>

\* line 291: filePath.replace(".wav", ".mp3"), which replaces the first
\* ".wav" of the path: the extension, as no cli_number text of the model
\* holds one.
Mp3Path(p) == <<p[1], p[2], "mp3">>

NoCountry == <<"unset">>

\* lines 343-358: main() has its session, an empty dedup set and the reload
\* interval armed, and is about to read the page for the first time
MainInit ==
    /\ escapeDefined \in BOOLEAN
    /\ procState = "running"
    /\ mainPc = "content"
    /\ rowsLeft = 0
    /\ processedCalls = {}
    /\ tasks = {}
    /\ unhandled = FALSE
    /\ files = {}
    /\ reloads = 0
    /\ log = {}
    /\ tickLine = "none"
    /\ first = [c \in CLIs |-> "none"]
    /\ prevAudio = {}
    /\ curAudio = {}

\* No termination cell is being read
CountryIdle == cell = <<>> /\ country = NoCountry

\* line 337 returned a session from the first attempt: one browser is open
\* and main() holds it (line 343)
SessionOpen ==
    /\ maxRetries = 2 /\ headless = FALSE
    /\ loginPc = "session" /\ attempt = 0
    /\ browser = 1 /\ opened = {1} /\ launched = 1

\* The process once monitoring has started, in a run whose pipeline runs all
\* read the same millisecond off the clock: their file names then differ by
\* the cli_number alone.
Init ==
    /\ MainInit
    /\ clock = {0}
    /\ SessionOpen
    /\ CountryIdle

\* The same with a clock that may advance between two pipeline runs
InitClock ==
    /\ MainInit
    /\ clock = Stamps
    /\ SessionOpen
    /\ CountryIdle

(* -------------------------------- login ------------------------------- *)
\* line 337 with any options: loginToDashboard is entered, nothing launched
InitLogin ==
    /\ MainInit
    /\ clock = {0}
    /\ maxRetries \in 0..MaxRetriesBound /\ headless \in BOOLEAN
    /\ loginPc = "while" /\ attempt = 0
    /\ browser = 0 /\ opened = {} /\ launched = 0
    /\ CountryIdle

LoginFrame == UNCHANGED <<mainVars, countryVars, maxRetries, headless>>

FurtherAlways(a, m) == TRUE

\* line 173: attempt < maxRetries
Further(a, m) == a < m

ClosedNot(set, b) == set

\* line 256: what browser.close() does to the set of open browsers
Closed(set, b) == set \ {b}

\* lines 253-258: the catch block up to its await.  With a browser it
\* suspends in browser.close(); without one it falls through to line 257,
\* returns null at line 258 or goes back to the loop test.
Caught ==
    /\ attempt' = attempt + 1
    /\ IF browser # 0
       THEN loginPc' = "close" /\ UNCHANGED browser
       ELSE /\ browser' = 0
            /\ loginPc' = IF attempt + 1 >= maxRetries THEN "null" ELSE "while"
    /\ UNCHANGED <<opened, launched>>

\* One awaited call of the try block settles: resolved, control moves to the
\* next await; rejected, control enters the catch block.
Await(pc, next) ==
    /\ loginPc = pc
    /\ \E ok \in BOOLEAN :
          IF ok THEN loginPc' = next /\ UNCHANGED <<attempt, browser, opened, launched>>
          ELSE Caught
    /\ LoginFrame

\* line 173: the loop test; line 262 when it fails
LoginWhile ==
    /\ loginPc = "while"
    /\ loginPc' = IF Further(attempt, maxRetries) THEN "launch" ELSE "null"
    /\ UNCHANGED <<attempt, browser, opened, launched>>
    /\ LoginFrame

\* lines 175-179: puppeteer.launch settles; the assignment to browser
\* happens only when it resolves
LoginLaunch ==
    /\ loginPc = "launch"
    /\ \E ok \in BOOLEAN :
          IF ok
          THEN /\ launched' = launched + 1
               /\ browser' = launched + 1
               /\ opened' = opened \cup {launched + 1}
               /\ loginPc' = "newPage"
               /\ UNCHANGED attempt
          ELSE Caught
    /\ LoginFrame

\* line 181: browser.newPage()
LoginNewPage == Await("newPage", "goto")

\* lines 184-187: page.goto of the login page
LoginGoto == Await("goto", "wait")

\* line 190: the 5 s timer fires (a timer never rejects), then line 192
\* submits page.$$("input")
LoginWait ==
    /\ loginPc = "wait"
    /\ loginPc' = "inputs"
    /\ UNCHANGED <<attempt, browser, opened, launched>>
    /\ LoginFrame

\* lines 192-220: the inputs are read and classified; with both fields the
\* credentials are typed, else line 219 throws
LoginInputs ==
    /\ loginPc = "inputs"
    /\ \E ok \in BOOLEAN, fields \in BOOLEAN :
          IF ok /\ fields
          THEN loginPc' = "type" /\ UNCHANGED <<attempt, browser, opened, launched>>
          ELSE Caught
    /\ LoginFrame

\* lines 216-217: both type() calls
LoginType == Await("type", "button")

\* lines 222-236: the submit button is looked up; found, it is clicked and
\* the navigation awaited, else line 235 throws
LoginButton ==
    /\ loginPc = "button"
    /\ \E ok \in BOOLEAN, found \in BOOLEAN :
          IF ok /\ found
          THEN loginPc' = "click" /\ UNCHANGED <<attempt, browser, opened, launched>>
          ELSE Caught
    /\ LoginFrame

\* lines 230-240: the click settles; off the site line 252 throws, on it
\* page.content() is submitted
LoginClick ==
    /\ loginPc = "click"
    /\ \E ok \in BOOLEAN, onSite \in BOOLEAN :
          IF ok /\ onSite
          THEN loginPc' = "content" /\ UNCHANGED <<attempt, browser, opened, launched>>
          ELSE Caught
    /\ LoginFrame

\* lines 240-245: page.content() settles; with the dashboard in it the live
\* calls page is opened, else line 252 throws
LoginContent ==
    /\ loginPc = "content"
    /\ \E ok \in BOOLEAN, dashboard \in BOOLEAN :
          IF ok /\ dashboard
          THEN loginPc' = "liveCalls" /\ UNCHANGED <<attempt, browser, opened, launched>>
          ELSE Caught
    /\ LoginFrame

\* line 245: page.goto of the live calls page
LoginLiveCalls == Await("liveCalls", "cookies")

\* lines 246-248: page.cookies() settles; resolved, the session is returned
LoginCookies == Await("cookies", "session")

\* lines 256-258: browser.close() settles.  Resolved, the browser is gone and
\* the function retries or returns null.  Rejected, the error leaves the
\* catch block and loginToDashboard itself rejects; whether the browser
\* went away is not known.
LoginClose ==
    /\ loginPc = "close"
    /\ \E ok \in BOOLEAN, gone \in BOOLEAN :
          IF ok
          THEN /\ opened' = Closed(opened, browser)
               /\ browser' = 0
               /\ loginPc' = IF attempt >= maxRetries THEN "null" ELSE "while"
          ELSE /\ opened' = IF gone THEN Closed(opened, browser) ELSE opened
               /\ loginPc' = "threw"
               /\ UNCHANGED browser
    /\ UNCHANGED <<attempt, launched>>
    /\ LoginFrame

\* lines 338-341 and 411-418: without a session main() logs and returns, or
\* catches what loginToDashboard threw; its own browser variable is still
\* null, so the finally block closes nothing and the process ends.
MainNoSession ==
    /\ procState = "running"
    /\ loginPc \in {"null", "threw"}
    /\ procState' = "exited"
    /\ UNCHANGED <<escapeDefined, clock, mainPc, rowsLeft, processedCalls, tasks,
                   unhandled, files, reloads, log, tickLine, hist, loginVars,
                   countryVars>>

NextLogin ==
    \/ LoginWhile
    \/ LoginLaunch
    \/ LoginNewPage
    \/ LoginGoto
    \/ LoginWait
    \/ LoginInputs
    \/ LoginType
    \/ LoginButton
    \/ LoginClick
    \/ LoginContent
    \/ LoginLiveCalls
    \/ LoginCookies
    \/ LoginClose
    \/ MainNoSession

SpecLogin == InitLogin /\ [][NextLogin]_vars

(* ------------------------- reading the country ------------------------ *)
\* line 373 applied to any cell text
InitCountry ==
    /\ MainInit
    /\ clock = {0}
    /\ SessionOpen
    /\ cell \in Texts /\ country = NoCountry

\* line 373: extractCountryFromTermination($(columns[0]).text().trim())
ReadCountry ==
    /\ country = NoCountry
    /\ country' = extractCountryFromTermination(TrimText(cell))
    /\ UNCHANGED <<mainVars, loginVars, cell>>

NextCountry == ReadCountry

SpecCountry == InitCountry /\ [][NextCountry]_vars

(* ------------------------------ main loop ----------------------------- *)
Running == procState = "running"

\* Callbacks other than main()'s continuation run only while main() is
\* suspended at an await (lines 362, 405, 408).
Suspended == Running /\ mainPc # "scan"

\* What the history variables record of a row, read off the row itself:
\* FAILED in any letter case, with or without a play button; else an audio
\* row when the play button carries two non-empty tokens.
IsFailedText(s) == s \in {"FAILED", " failed ", "failed"}

RowKind(r) ==
    IF IsFailedText(r.last) THEN (IF r.hasPlay THEN "failedPlay" ELSE "failed")
    ELSE IF ~r.hasPlay THEN "quiet"
    ELSE IF Len(r.args) = 2 /\ r.args[1] # "" /\ r.args[2] # "" THEN "audio"
    ELSE "badPlay"

\* line 362: page.content() resolves with the markup of n rows
ContentOk ==
    /\ Running /\ mainPc = "content"
    /\ \E n \in 0..MaxRows : rowsLeft' = n
    /\ mainPc' = "scan"
    /\ tickLine' = "none"
    /\ UNCHANGED <<loginVars, countryVars, escapeDefined, clock, procState,
                   processedCalls, tasks, unhandled, files, reloads, log, hist>>

\* line 362 rejects (navigation in progress, detached frame): the catch of
\* lines 403-405 writes its line, which names no call, and starts the back-off
ContentFail ==
    /\ Running /\ mainPc = "content"
    /\ mainPc' = "backoff"
    /\ tickLine' = "loop"
    /\ UNCHANGED <<loginVars, countryVars, escapeDefined, clock, procState, rowsLeft,
                   processedCalls, tasks, unhandled, files, reloads, log, hist>>

\* line 405: the 15 s back-off timer fires; control reaches line 408
BackoffDone ==
    /\ Running /\ mainPc = "backoff"
    /\ mainPc' = "sleep"
    /\ UNCHANGED <<tickLine, loginVars, countryVars, escapeDefined, clock, procState,
                   rowsLeft, processedCalls, tasks, unhandled, files, reloads, log, hist>>

\* line 408: the 100 ms timer fires; the loop starts the next tick
SleepDone ==
    /\ Running /\ mainPc = "sleep"
    /\ mainPc' = "content"
    /\ UNCHANGED <<tickLine, loginVars, countryVars, escapeDefined, clock, procState,
                   rowsLeft, processedCalls, tasks, unhandled, files, reloads, log, hist>>

\* lines 382-398: what a row that was not seen before starts.
\* sendInstantNotification and sendFailedCallNotification run synchronously
\* up to their first await, so a task that starts in "notifying" or "posted"
\* has submitted its sendMessage post.  sendFailedCallNotification builds
\* its message outside its try block (lines 145-153) with escapeMarkdownV2,
\* which index.js neither declares nor imports: when the name does not
\* resolve, the promise it returns rejects before any post ("rejected").
Dispatched(r, n) ==
    IF r.hasPlay /\ CallStatus(r) # "FAILED"
    THEN IF PlayMatch(r.args) # NoMatch
         THEN {NewTask("audio", r.cli, n, "notifying", AudioUrl(PlayMatch(r.args)))}
         ELSE {}
    ELSE IF CallStatus(r) = "FAILED"
    THEN {NewTask("failed", r.cli, n, IF escapeDefined THEN "posted" ELSE "rejected", NoUrl)}
    ELSE {}

\* lines 366-400: the .each callback for one row
ScanRow(r) ==
    /\ Running /\ mainPc = "scan" /\ rowsLeft > 0
    /\ LET isNew == r.cols > 2 /\ ~Has(processedCalls, r.cli)
           started == IF isNew THEN Dispatched(r, Cardinality(TasksOf(r.cli)) + 1) ELSE {}
       IN
       /\ Cardinality(TasksOf(r.cli)) + Cardinality(started) <= MaxDispatch
       /\ processedCalls' = IF isNew THEN Add(processedCalls, r.cli) ELSE processedCalls
       /\ tasks' = tasks \cup started
       /\ unhandled' = (unhandled \/ \E t \in started : t.st = "rejected")
    /\ rowsLeft' = rowsLeft - 1
    /\ first' = IF r.cols > 2 /\ first[r.cli] = "none"
                THEN [first EXCEPT ![r.cli] = RowKind(r)] ELSE first
    /\ curAudio' = IF r.cols > 2 /\ RowKind(r) = "audio" THEN curAudio \cup {r.cli} ELSE curAudio
    /\ UNCHANGED <<tickLine, loginVars, countryVars, escapeDefined, clock, procState,
                   mainPc, files, reloads, log, prevAudio>>

\* line 401 to line 408: the .each call returns and main() suspends at the
\* 100 ms timer; the runtime then reports a promise that rejected with no
\* handler.  Node 15 and later end the process at once by default, without
\* running main()'s finally block; older versions and
\* --unhandled-rejections=warn only print a warning.
EndScan ==
    /\ Running /\ mainPc = "scan" /\ rowsLeft = 0
    /\ \E policy \in {"throw", "warn"} :
          IF unhandled /\ policy = "throw"
          THEN /\ procState' = "crashed"
               /\ UNCHANGED <<mainPc, unhandled>>
          ELSE /\ mainPc' = "sleep"
               /\ unhandled' = FALSE
               /\ UNCHANGED procState
    /\ prevAudio' = curAudio
    /\ curAudio' = {}
    /\ UNCHANGED <<tickLine, loginVars, countryVars, escapeDefined, clock, rowsLeft,
                   processedCalls, tasks, files, reloads, log, first>>

(* --------------------------- notifications --------------------------- *)
SetTask(t, u) == (tasks \ {t}) \cup {u}

\* lines 122-135 and the .then callback of lines 389-393: the sendMessage
\* post settles; the handle is the message id or null, and the 20 s timer
\* for the pipeline is armed in both cases.
NotifyDone(t) ==
    /\ Suspended
    /\ t.kind = "audio" /\ t.st = "notifying"
    /\ \E ok \in BOOLEAN :
          /\ tasks' = SetTask(t, [t EXCEPT !.st = "delay",
                                           !.handle = IF ok THEN <<t.cli, t.n>> ELSE <<>>])
          /\ log' = IF ok THEN log ELSE log \cup {<<"notify", t.cli>>}
    /\ UNCHANGED <<tickLine, loginVars, countryVars, escapeDefined, clock, procState,
                   mainPc, rowsLeft, processedCalls, unhandled, files, reloads, hist>>

\* lines 155-163: the sendMessage post of a failed-call notification settles
FailedNotifyDone(t) ==
    /\ Suspended
    /\ t.kind = "failed" /\ t.st = "posted"
    /\ \E ok \in BOOLEAN :
          /\ tasks' = SetTask(t, [t EXCEPT !.st = IF ok THEN "ok" ELSE "fail"])
          /\ log' = IF ok THEN log ELSE log \cup {<<"failedNotify", t.cli>>}
    /\ UNCHANGED <<tickLine, loginVars, countryVars, escapeDefined, clock, procState,
                   mainPc, rowsLeft, processedCalls, unhandled, files, reloads, hist>>

(* ---------------------------- audio pipeline -------------------------- *)
WorkerRetry(t, e) == [t EXCEPT !.st = "delay"]

\* lines 326-328: the catch block of processCallWorker
WorkerCatch(t, e) == [t EXCEPT !.st = "done", !.err = e]

\* lines 323-324: unlinkSync of both files; a missing file throws ENOENT
Unlinked(fs, t) ==
    IF WavPath(t) \notin fs THEN fs
    ELSE IF Mp3Path(WavPath(t)) \notin fs THEN fs \ {WavPath(t)}
    ELSE fs \ {WavPath(t), Mp3Path(WavPath(t))}

UnlinkThrows(fs, t) == WavPath(t) \notin fs \/ Mp3Path(WavPath(t)) \notin fs

\* lines 323-328 as the last step of a run
Finish(t, fs) ==
    IF UnlinkThrows(fs, t) THEN WorkerCatch(t, "unlink") ELSE [t EXCEPT !.st = "done"]

PassedNull(h) == <<>>

\* line 391: the messageId of the .then callback is the argument of the call
Passed(h) == h

\* line 272: what Date.now() may return to the next pipeline run.  The
\* clock never runs backwards and the first value read is the origin.
Now ==
    IF \A u \in tasks : u.stamp = -1 THEN {0}
    ELSE {s \in clock : \A u \in tasks : u.stamp <= s}

\* lines 390-392 and 269-286: the 20 s timer fires, processCallWorker names
\* the file after Date.now() and submits the fetch of the recording.
WorkerStart(t) ==
    /\ Suspended
    /\ t.kind = "audio" /\ t.st = "delay"
    /\ t.fetches < MaxFetches
    /\ \E now \in Now :
          tasks' = SetTask(t, [t EXCEPT !.st = "fetching", !.fetches = @ + 1,
                                        !.arg = Passed(t.handle), !.stamp = now])
    /\ UNCHANGED <<tickLine, loginVars, countryVars, escapeDefined, clock, procState,
                   mainPc, rowsLeft, processedCalls, unhandled, files, reloads, log,
                   hist>>

\* lines 282-305: the fetch settles; on success the raw file is written and
\* the transcode started.
FetchDone(t) ==
    /\ Suspended
    /\ t.kind = "audio" /\ t.st = "fetching"
    /\ \E ok \in BOOLEAN :
          IF ok
          THEN /\ files' = files \cup {WavPath(t)}
               /\ tasks' = SetTask(t, [t EXCEPT !.st = "transcoding"])
               /\ UNCHANGED log
          ELSE /\ tasks' = SetTask(t, WorkerCatch(t, "fetch"))
               /\ log' = log \cup {<<"worker", t.cli>>}
               /\ UNCHANGED files
    /\ UNCHANGED <<tickLine, loginVars, countryVars, escapeDefined, clock, procState,
                   mainPc, rowsLeft, processedCalls, unhandled, reloads, hist>>

\* lines 292-317: the transcode settles.  On success the caption is built
\* with escapeMarkdownV2 (inside the try block) and the attachment post is
\* submitted; on error ffmpeg may leave a partial output file.
TranscodeDone(t) ==
    /\ Suspended
    /\ t.kind = "audio" /\ t.st = "transcoding"
    /\ \E ok \in BOOLEAN, partial \in BOOLEAN :
          LET mp3 == Mp3Path(WavPath(t)) IN
          IF ok
          THEN /\ files' = files \cup {mp3}
               /\ IF escapeDefined
                  THEN /\ tasks' = SetTask(t, [t EXCEPT !.st = "delivering"])
                       /\ UNCHANGED log
                  ELSE /\ tasks' = SetTask(t, WorkerCatch(t, "caption"))
                       /\ log' = log \cup {<<"worker", t.cli>>}
          ELSE /\ files' = IF partial THEN files \cup {mp3} ELSE files
               /\ tasks' = SetTask(t, WorkerCatch(t, "transcode"))
               /\ log' = log \cup {<<"ffmpeg", t.cli>>, <<"worker", t.cli>>}
    /\ UNCHANGED <<tickLine, loginVars, countryVars, escapeDefined, clock, procState,
                   mainPc, rowsLeft, processedCalls, unhandled, reloads, hist>>

\* lines 100-107 and 317-328: the attachment post settles.
\* sendAudioToTelegramGroup resolves with true or false and never rejects,
\* and processCallWorker does not read the result: the retract post is
\* submitted when the handle is truthy, else the files are unlinked.
TruthyAlways(h) == TRUE

\* line 319: if (notificationMessageId)
Truthy(h) == h # <<>>

DeliverDone(t) ==
    /\ Suspended
    /\ t.kind = "audio" /\ t.st = "delivering"
    /\ \E ok \in BOOLEAN :
          LET u == [t EXCEPT !.sent = IF ok THEN "ok" ELSE "fail"]
              lg == IF ok THEN log ELSE log \cup {<<"audio", t.cli>>} IN
          IF Truthy(u.arg)
          THEN /\ tasks' = SetTask(t, [u EXCEPT !.st = "retracting"])
               /\ log' = lg
               /\ UNCHANGED files
          ELSE /\ tasks' = SetTask(t, Finish(u, files))
               /\ files' = Unlinked(files, u)
               /\ log' = IF UnlinkThrows(files, u) THEN lg \cup {<<"worker", t.cli>>} ELSE lg
    /\ UNCHANGED <<tickLine, loginVars, countryVars, escapeDefined, clock, procState,
                   mainPc, rowsLeft, processedCalls, unhandled, reloads, hist>>

\* lines 72-82 and 320-328: the deleteMessage post settles, then the files
\* are unlinked.
RetractDone(t) ==
    /\ Suspended
    /\ t.kind = "audio" /\ t.st = "retracting"
    /\ \E ok \in BOOLEAN :
          LET u == [t EXCEPT !.retract = IF ok THEN "ok" ELSE "fail"]
              lg == IF ok THEN log ELSE log \cup {<<"delete", t.cli>>} IN
          /\ tasks' = SetTask(t, Finish(u, files))
          /\ files' = Unlinked(files, u)
          /\ log' = IF UnlinkThrows(files, u) THEN lg \cup {<<"worker", t.cli>>} ELSE lg
    /\ UNCHANGED <<tickLine, loginVars, countryVars, escapeDefined, clock, procState,
                   mainPc, rowsLeft, processedCalls, unhandled, reloads, hist>>

(* ------------------------------ page reload --------------------------- *)
\* lines 350-353: the setInterval callback starts page.reload()
RefreshFire ==
    /\ Suspended
    /\ reloads < MaxReloads
    /\ reloads' = reloads + 1
    /\ UNCHANGED <<tickLine, loginVars, countryVars, escapeDefined, clock, procState,
                   mainPc, rowsLeft, processedCalls, tasks, unhandled, files, log, hist>>

ReloadErrorSilent(line) == line

\* lines 355-357: the catch of the interval callback writes its line
ReloadError(line) == "refresh"

\* lines 353-357: page.reload() settles, resolved or rejected; rejected, the
\* callback's catch writes a line that names no call.  Nothing else changes
\* and the interval stays armed.
RefreshSettle(ok) ==
    /\ Suspended
    /\ reloads > 0
    /\ reloads' = reloads - 1
    /\ tickLine' = IF ok THEN tickLine ELSE ReloadError(tickLine)
    /\ UNCHANGED <<loginVars, countryVars, escapeDefined, clock, procState, mainPc,
                   rowsLeft, processedCalls, tasks, unhandled, files, log, hist>>

RefreshDone == \E ok \in BOOLEAN : RefreshSettle(ok)

(* --------------------------- specification ---------------------------- *)
Next ==
    \/ ContentOk
    \/ ContentFail
    \/ BackoffDone
    \/ SleepDone
    \/ \E r \in PageRows : ScanRow(r)
    \/ EndScan
    \/ \E t \in tasks : NotifyDone(t)
    \/ \E t \in tasks : FailedNotifyDone(t)
    \/ \E t \in tasks : WorkerStart(t)
    \/ \E t \in tasks : FetchDone(t)
    \/ \E t \in tasks : TranscodeDone(t)
    \/ \E t \in tasks : DeliverDone(t)
    \/ \E t \in tasks : RetractDone(t)
    \/ RefreshFire
    \/ RefreshDone

Spec == Init /\ [][Next]_vars

\* The steps of main()'s own loop.  Its timers fire, page.content() settles
\* and the synchronous scan runs to its end, so the loop takes its next step
\* whenever one stays possible.
PollLoop ==
    \/ ContentOk
    \/ ContentFail
    \/ BackoffDone
    \/ SleepDone
    \/ \E r \in PageRows : ScanRow(r)
    \/ EndScan

SpecFair == Spec /\ WF_vars(PollLoop)

SpecClock == InitClock /\ [][Next]_vars

(* ------------------------------- claims ------------------------------- *)
AudioTasks(c) == {t \in tasks : t.cli = c /\ t.kind = "audio"}
FailedTasks(c) == {t \in tasks : t.cli = c /\ t.kind = "failed"}
AllAudio(ts) == {t \in ts : t.kind = "audio"}

\* C1: for every cli_number at most one dispatch (a detected alert with its
\* pipeline, or a failed-call notification) is ever started, however many
\* rows and ticks show it.
C1_AtMostOneDispatch == \A c \in CLIs : Cardinality(TasksOf(c)) <= 1

\* a cli_number shown by two scans in a row, with its one dispatch
C1_Witness == \E c \in prevAudio \cap curAudio : Cardinality(TasksOf(c)) = 1

\* C2: the mark is made in the row's own synchronous step, before its
\* dispatch exists: every dispatch belongs to a marked cli_number at all
\* times, also after the dispatch failed; the dedup store changes only in a
\* step of the scan and never shrinks; and while the scan runs no pipeline
\* task and no reload takes a step.
C2_MarkBeforeDispatch ==
    /\ [](\A t \in tasks : t.cli \in processedCalls)
    /\ [][/\ processedCalls \subseteq processedCalls'
          /\ processedCalls' # processedCalls => (mainPc = "scan" /\ mainPc' = "scan")
          /\ mainPc = "scan" => (reloads' = reloads /\ tasks \subseteq tasks' /\ files' = files)
         ]_vars

\* a dispatch that failed, its cli_number still marked
C2_Witness ==
    \E t \in tasks : /\ (t.err # "none" \/ t.st \in {"fail", "rejected"} \/
                           (t.kind = "audio" /\ t.st # "notifying" /\ t.handle = <<>>))
                     /\ t.cli \in processedCalls

PipelineRuns(c) == {t \in AudioTasks(c) : t.fetches > 0}

\* C3 as stated: two consecutive scans that both return an audio row for X
\* give exactly one detected notification and at most one pipeline run for X.
C3_TwoScansOneAlert ==
    \A c \in prevAudio \cap curAudio :
        /\ Cardinality(AudioTasks(c)) = 1
        /\ Cardinality(PipelineRuns(c)) <= 1

\* C3 as amended: the same, for an X whose first row of the run was that
\* audio row (X was not marked before from a FAILED or audioless row).
C3_TwoScansOneAlertWhenFirst ==
    \A c \in prevAudio \cap curAudio :
        first[c] = "audio" =>
            /\ Cardinality(AudioTasks(c)) = 1
            /\ Cardinality(PipelineRuns(c)) <= 1
            /\ \A t \in AudioTasks(c) : t.fetches <= 1

\* X shown as an audio row by two scans in a row, its pipeline started
C3_Witness ==
    \E c \in prevAudio \cap curAudio :
        first[c] = "audio" /\ \E t \in AudioTasks(c) : t.fetches = 1

\* C4: a row whose status text is FAILED in any letter case starts no
\* detected alert and no pipeline, with or without a play button: no audio
\* dispatch exists for a cli_number first seen in such a row, and the step
\* that scans such a row adds no audio dispatch.
C4_FailedNeverAudio ==
    /\ [](\A c \in CLIs : first[c] \in {"failed", "failedPlay"} => AudioTasks(c) = {})
    /\ [][AllAudio(tasks') # AllAudio(tasks) =>
             \A r \in PageRows : (r.cols > 2 /\ IsFailedText(r.last)) => ~ScanRow(r)]_vars

\* a new FAILED row with a play button was scanned and handled as failed
C4_Witness == \E c \in CLIs : first[c] = "failedPlay" /\ FailedTasks(c) # {}

\* C5: every new row with at least three columns and status FAILED has
\* exactly one failed-call notification submitted to the transport, in the
\* step that scans it.
C5_FailedNotified ==
    \A c \in CLIs :
        first[c] \in {"failed", "failedPlay"} =>
            Cardinality({t \in FailedTasks(c) : t.st # "rejected"}) = 1

\* C6: an audio dispatch exists only for a cli_number first seen in a
\* non-FAILED row whose play button gave two tokens, and it carries the URL
\* made of them; a non-FAILED row without a play button or with a handler
\* that does not match starts nothing, and its cli_number is marked.
C6_PipelineOnlyWithUrl ==
    /\ \A t \in AllAudio(tasks) :
          /\ first[t.cli] = "audio"
          /\ Len(t.url) = 3 /\ t.url[2] \notin {"", "undefined"} /\ t.url[3] \notin {"", "undefined"}
    /\ \A c \in CLIs :
          first[c] \in {"quiet", "badPlay"} => (TasksOf(c) = {} /\ c \in processedCalls)

\* one cli_number first seen with a handler that does not match, marked and
\* without dispatch, beside another whose pipeline has started
C6_Witness ==
    \E c \in CLIs, d \in CLIs :
        /\ first[c] = "badPlay" /\ c \in processedCalls /\ TasksOf(c) = {}
        /\ \E t \in AudioTasks(d) : t.fetches = 1

\* C7: a failed fetch, transcode or delivery aborts the later steps of the
\* run; the detected alert is retracted only after a successful delivery.
C7_AbortOnFailure ==
    \A t \in AllAudio(tasks) :
        /\ t.err \in {"fetch", "transcode", "caption"} => (t.sent = "none" /\ t.retract = "none")
        /\ (t.st = "retracting" \/ t.retract # "none") => t.sent = "ok"

\* C8: when a pipeline run has ended, the raw and the transcoded file it
\* created are gone.
C8_TempFilesDeleted ==
    \A t \in AllAudio(tasks) :
        t.st = "done" => (WavPath(t) \notin files /\ Mp3Path(WavPath(t)) \notin files)

\* C9: a failure in a step of a pipeline is caught and logged in that
\* pipeline: the run ends there and is never resumed or retried, and the
\* step in which it fails changes neither the poll loop, nor the process,
\* nor any other dispatch.
C9_FailureContained ==
    /\ [](\A t \in AllAudio(tasks) :
             /\ t.fetches <= 1
             /\ t.err # "none" => (t.st = "done" /\ <<"worker", t.cli>> \in log)
             /\ t.sent = "fail" => <<"audio", t.cli>> \in log
             /\ t.retract = "fail" => <<"delete", t.cli>> \in log)
    /\ [][\A t \in AllAudio(tasks) :
             /\ t.st = "done" => t \in tasks'
             /\ (t.err = "none" /\ t \notin tasks' /\
                 \E u \in tasks' : u.cli = t.cli /\ u.n = t.n /\ u.err # "none")
                  => /\ procState' = procState /\ mainPc' = mainPc
                     /\ rowsLeft' = rowsLeft /\ unhandled' = unhandled
                     /\ processedCalls' = processedCalls
                     /\ (tasks \ {t}) \subseteq tasks'
         ]_vars

\* one pipeline ended by a failed transcode, another delivered its audio,
\* the poll loop in a later scan
C9_Witness ==
    /\ Running /\ mainPc = "scan"
    /\ \E t \in tasks, u \in tasks :
          t.err = "transcode" /\ u.sent = "ok" /\ u.st = "done" /\ u.err = "none"

\* C10: a failed notification call (detected alert, failed-call
\* notification, attachment, retract) or recording fetch is logged, not
\* retried, and never ends the poll loop or the process, also when the call
\* was started without await.
C10_TransportFailureHarmless ==
    /\ procState = "running"
    /\ \A t \in tasks :
          /\ t.st = "fail" => <<"failedNotify", t.cli>> \in log
          /\ t.st = "rejected" => <<"failedNotify", t.cli>> \in log
          /\ t.err = "fetch" => <<"worker", t.cli>> \in log
          /\ t.sent = "fail" => <<"audio", t.cli>> \in log
          /\ t.retract = "fail" => <<"delete", t.cli>> \in log
          /\ t.fetches <= 1

\* C11: loginToDashboard makes at most maxRetries attempts and each attempt
\* that has a browser has one launched for it: never more launches than
\* attempts, and the browser an attempt works with is the one launched last.
\* It returns null only after exactly maxRetries failed attempts, and once
\* it has returned a session nothing of it runs again.
InTry == {"launch", "newPage", "goto", "wait", "inputs", "type", "button", "click",
          "content", "liveCalls", "cookies", "session"}

AttemptsMade == attempt + (IF loginPc \in InTry THEN 1 ELSE 0)

C11_BoundedFreshAttempts ==
    /\ [](/\ AttemptsMade <= maxRetries
          /\ launched <= AttemptsMade
          /\ (loginPc \in InTry \ {"launch"} => browser = launched /\ browser \in opened)
          /\ (loginPc = "null" => attempt = maxRetries)
          /\ (loginPc = "session" => attempt < maxRetries))
    /\ [][/\ loginPc = "session" => UNCHANGED loginVars
          /\ launched' # launched =>
                /\ launched' = launched + 1 /\ browser' = launched' /\ browser' \notin opened
                /\ attempt' = attempt]_vars

C11_Witness ==
    loginPc = "null" /\ maxRetries = MaxRetriesBound /\ attempt = maxRetries
    /\ launched = maxRetries

\* C12: when loginToDashboard has returned null no browser it launched is
\* open; at any moment of the login at most one browser is open, and none is
\* open when an attempt is about to launch one.
C12_NoBrowserLeftOpen ==
    /\ loginPc = "null" => opened = {}
    /\ Cardinality(opened) <= 1
    /\ loginPc \in {"while", "launch"} => opened = {}

C12_Witness ==
    loginPc = "null" /\ maxRetries = 2 /\ launched = 2 /\ opened = {}

\* C13: an error raised during a poll tick is followed by the back-off and
\* the next tick: the back-off is left only for the 100 ms sleep that leads
\* into the next tick, the process keeps running, and a tick starts again
\* and again for ever.
C13_TicksForever ==
    /\ [](procState = "running")
    /\ [][mainPc = "backoff" /\ mainPc' # "backoff" => mainPc' = "sleep"]_vars
    /\ []<>(mainPc = "content")

\* C14: the interval reload is a task of its own.  A step of it (a reload
\* submitted or settled) changes nothing of the poll loop, of the dedup set
\* or of any dispatch, and a reload that fails writes its log line.  While
\* the process runs another reload can always be submitted, with one in
\* flight the page read can still resolve or reject, the process ends in no
\* other way than by a pending unhandled rejection, which no reload step
\* creates, and no cli_number is dispatched twice.
ReloadStep == RefreshFire \/ RefreshDone

C14_ReloadIndependent ==
    /\ [](/\ Suspended /\ reloads < MaxReloads => ENABLED RefreshFire
          /\ Running /\ mainPc = "content" /\ reloads > 0 =>
                ENABLED ContentOk /\ ENABLED ContentFail
          /\ \A c \in CLIs : Cardinality(TasksOf(c)) <= 1)
    /\ [][/\ reloads' # reloads =>
                /\ ReloadStep
                /\ UNCHANGED <<procState, mainPc, rowsLeft, processedCalls, tasks,
                               unhandled, files, log>>
          /\ reloads' < reloads /\ RefreshSettle(FALSE) => tickLine' = "refresh"
          /\ procState' # procState => unhandled /\ reloads' = reloads]_vars

C14_Witness ==
    /\ Running /\ mainPc = "sleep"
    /\ tickLine = "refresh" /\ reloads = 1
    /\ \E c \in prevAudio : Cardinality(TasksOf(c)) = 1

\* C15: with a session established the process ends only by main() leaving
\* its loop through its catch and finally blocks, and then no browser is
\* left open.
C15_ExitClosesBrowser ==
    procState # "running" => procState = "exited" /\ opened = {}

\* C16: the country of a cell is made of its leading tokens, a token being
\* a run of characters between white space, up to the first token that is
\* MOBILE or FIXED in any letter case or holds a digit, joined by one space
\* each; with no such leading token it is the whole trimmed text.
NonEmpty(part) == part # <<>>

Tokens(s) == SelectSeq(Split(TrimText(s)), NonEmpty)

LeadingTokens(s) ==
    IF CountryParts(Tokens(s)) # <<>> THEN Join(CountryParts(Tokens(s))) ELSE TrimText(s)

C16_CountryIsLeadingTokens ==
    country # NoCountry => country = LeadingTokens(cell)

\* C16 as the code has it: the trimmed text is cut at every single space, so
\* two spaces in a row delimit an empty piece.  The country is the trimmed
\* text up to the space before the first piece that is MOBILE or FIXED in
\* any letter case or holds a digit, inner spacing untouched; it is the
\* whole trimmed text when no piece is one of these or the first piece is.
Terminators == {"MOBILE", "fixed", "07123"}

StopsAt(t) == {i \in 1..Len(t) : t[i] \in Terminators}

FirstStop(t) == CHOOSE i \in StopsAt(t) : \A j \in StopsAt(t) : i <= j

TextBeforeFirstStop(t) ==
    IF StopsAt(t) = {} \/ FirstStop(t) = 1 THEN t
    ELSE SubSeq(t, 1, FirstStop(t) - 2)

C16_CountryIsTextBeforeFirstStop ==
    country # NoCountry => country = TextBeforeFirstStop(TrimText(cell))

C16_Witness ==
    /\ cell = <<"UNITED", " ", " ", "KINGDOM", " ", "fixed", " ">>
    /\ country = <<"UNITED", " ", " ", "KINGDOM">>

\* C17: the pipeline of a dispatched audio call starts only after its
\* detected-alert send has settled and the delay timer armed then has fired:
\* a fetch is only ever submitted by a task that waits in the delay, which
\* is entered only from the settled send.  The pipeline is called with the
\* very handle the send resolved with, the task's own message id or null,
\* and a task in the delay can always start, whatever its handle.
C17_PipelineAfterAlertAndDelay ==
    /\ [](\A t \in AllAudio(tasks) :
            /\ t.st = "notifying" => t.handle = <<>>
            /\ t.st \in {"notifying", "delay"} => t.fetches = 0 /\ t.stamp = -1
            /\ t.st \notin {"notifying", "delay"} =>
                  t.fetches = 1 /\ t.arg = t.handle /\ t.handle \in {<<>>, <<t.cli, t.n>>}
            /\ t.st = "delay" /\ Suspended => ENABLED WorkerStart(t))
    /\ [][tasks' # tasks =>
            \A u \in AllAudio(tasks') \ tasks :
                /\ u.st = "delay" =>
                      \E t \in tasks \ tasks' : t.cli = u.cli /\ t.n = u.n /\ t.st = "notifying"
                /\ u.st = "fetching" =>
                      \E t \in tasks \ tasks' :
                          t.cli = u.cli /\ t.n = u.n /\ t.st = "delay" /\ u.arg = t.handle]_vars

C17_Witness ==
    \E t, u \in AllAudio(tasks) :
        /\ t.fetches = 1 /\ t.handle = <<>> /\ t.arg = <<>>
        /\ u.fetches = 1 /\ u.handle = <<u.cli, u.n>> /\ u.arg = u.handle

\* C18: a retract is submitted only by a pipeline run whose delivery step
\* has settled, only with a handle that is not null, and the handle is the
\* one created for that run's own call; no handle is retracted by two runs
\* and no run submits a second retract.  A retract that fails is logged,
\* and the run still ends with both of its temporary files removed.
Retracted(t) == t.st = "retracting" \/ t.retract # "none"

C18_RetractOnceAfterDelivery ==
    /\ [](\A t \in AllAudio(tasks) :
            /\ Retracted(t) =>
                  /\ t.sent # "none"
                  /\ t.arg # <<>> /\ t.arg = <<t.cli, t.n>> /\ t.arg = t.handle
                  /\ \A u \in AllAudio(tasks) : Retracted(u) /\ u.arg = t.arg => u = t
            /\ t.retract # "none" =>
                  /\ t.st = "done"
                  /\ WavPath(t) \notin files /\ Mp3Path(WavPath(t)) \notin files
            /\ t.retract = "fail" => <<"delete", t.cli>> \in log /\ t.err = "none")
    /\ [][tasks' # tasks =>
            \A u \in AllAudio(tasks') \ tasks :
                u.st = "retracting" =>
                    \E t \in tasks \ tasks' :
                        /\ t.cli = u.cli /\ t.n = u.n
                        /\ t.st = "delivering" /\ t.retract = "none"]_vars

C18_Witness ==
    \E t \in AllAudio(tasks) :
        /\ t.retract = "fail" /\ t.sent = "ok" /\ t.st = "done" /\ t.err = "none"
        /\ WavPath(t) \notin files /\ Mp3Path(WavPath(t)) \notin files

\* C19: a cli_number whose first row was a non-FAILED row without a
\* resolvable recording URL stays that way for the rest of the run: it is
\* marked, no step ever starts a notification or a pipeline for it, nothing
\* is logged about it and no file carries its name, whatever rows later
\* scans show for it.
NoActionKinds == {"quiet", "badPlay"}

C19_NoActionRowSilencesCli ==
    /\ [](\A c \in CLIs :
            first[c] \in NoActionKinds =>
                /\ c \in processedCalls
                /\ TasksOf(c) = {}
                /\ \A l \in log : l[2] # c
                /\ \A f \in files : f[2] # c)
    /\ [][\A c \in CLIs :
            first[c] \in NoActionKinds =>
                first'[c] = first[c] /\ {t \in tasks' : t.cli = c} = {}]_vars

C19_Witness ==
    \E c \in prevAudio \cap curAudio :
        first[c] = "quiet" /\ TasksOf(c) = {} /\ mainPc = "scan" /\ rowsLeft = 0

\* C20: two pipeline runs never name the same file, also when both read the
\* same millisecond off the clock: every run that has named its files has a
\* cli_number of its own, its raw and its transcoded file differ, both carry
\* its cli_number, and every file on disk is a file of exactly one run.
Started == {t \in AllAudio(tasks) : t.stamp # -1}

PathsOf(t) == {WavPath(t), Mp3Path(WavPath(t))}

C20_TempPathsDisjoint ==
    /\ \A t \in Started :
          /\ WavPath(t) # Mp3Path(WavPath(t))
          /\ \A f \in PathsOf(t) : f[2] = t.cli
          /\ \A u \in Started : u # t => u.cli # t.cli /\ PathsOf(u) \cap PathsOf(t) = {}
    /\ \A f \in files : Cardinality({t \in Started : f \in PathsOf(t)}) = 1

C20_Witness ==
    \E t, u \in Started :
        /\ t # u /\ t.stamp = u.stamp
        /\ t.st = "transcoding" /\ u.st = "transcoding"
        /\ WavPath(t) \in files /\ WavPath(u) \in files

====
